---- MODULE Spec2Model ----
(***************************************************************************)
(* Model of the JBmarks token exchange relay (src/server-simple.js).       *)
(*                                                                         *)
(* Strings are sequences of one-character strings, so that startsWith,     *)
(* includes, toLowerCase, substring, URL parsing, form encoding and JSON    *)
(* parsing are computed character by character as the runtime does.         *)
(***************************************************************************)
EXTENDS Integers, Sequences, FiniteSets, TLC

\* ------------------------------------------------------------------------
\* JavaScript values that a request body field or an environment variable
\* can hold.
JUndef == [t |-> "undefined"]

JStr(s) == [t |-> "string", s |-> s]

JNum(n) == [t |-> "number", n |-> n]

\* ------------------------------------------------------------------------
\* Character helpers.
DigitChars == <<"0", "1", "2", "3", "4", "5", "6", "7", "8", "9">>

UpperChars == <<"A", "B", "C", "D", "E", "F", "G", "H", "I", "J", "K", "L", "M",
                "N", "O", "P", "Q", "R", "S", "T", "U", "V", "W", "X", "Y", "Z">>

LowerChars == <<"a", "b", "c", "d", "e", "f", "g", "h", "i", "j", "k", "l", "m",
                "n", "o", "p", "q", "r", "s", "t", "u", "v", "w", "x", "y", "z">>

IsDigit(ch) == \E i \in 1..10 : DigitChars[i] = ch

DigitVal(ch) == (CHOOSE i \in 1..10 : DigitChars[i] = ch) - 1

AllDigits(s) == \A i \in 1..Len(s) : IsDigit(s[i])

RECURSIVE DecStr(_)
DecStr(n) == IF n < 10 THEN <<DigitChars[n + 1]>>
             ELSE DecStr(n \div 10) \o <<DigitChars[(n % 10) + 1]>>

\* Value of a digit string in the given radix (at most 9 digits are read by
\* the model, which keeps the value inside TLC's integers).
RECURSIVE RadixVal(_, _)
RadixVal(s, radix) == IF Len(s) = 0 THEN 0
                      ELSE RadixVal(SubSeq(s, 1, Len(s) - 1), radix) * radix
                           + DigitVal(s[Len(s)])

DecVal(s) == RadixVal(s, 10)

Min(a, b) == IF a < b THEN a ELSE b

LowerChar(ch) == IF \E i \in 1..26 : UpperChars[i] = ch
                 THEN LowerChars[CHOOSE i \in 1..26 : UpperChars[i] = ch]
                 ELSE ch

\* String.prototype.toLowerCase
ToLowerCase(s) == [i \in 1..Len(s) |-> LowerChar(s[i])]

\* String.prototype.startsWith
StartsWith(s, p) == Len(s) >= Len(p) /\ SubSeq(s, 1, Len(p)) = p

\* String.prototype.includes
Includes(s, p) == \E i \in 1..(Len(s) - Len(p) + 1) : SubSeq(s, i, i + Len(p) - 1) = p

\* Variant: the preview is not cut.
SubstringWhole(s, n) == s

\* String.prototype.substring(0, n)
Substring0(s, n) == SubSeq(s, 1, Min(n, Len(s)))

\* First index of a character of the set cs in s, or Len(s) + 1.
FirstOf(s, cs) == IF \E i \in 1..Len(s) : s[i] \in cs
                  THEN CHOOSE i \in 1..Len(s) :
                           s[i] \in cs /\ \A j \in 1..(i - 1) : s[j] \notin cs
                  ELSE Len(s) + 1

\* Last index of the character ch in s, or 0.
LastIndexOf(s, ch) == IF \E i \in 1..Len(s) : s[i] = ch
                      THEN CHOOSE i \in 1..Len(s) :
                               s[i] = ch /\ \A j \in (i + 1)..Len(s) : s[j] # ch
                      ELSE 0

\* String.prototype.split(ch)
RECURSIVE Split(_, _)
Split(s, ch) == LET i == FirstOf(s, {ch})
                IN IF i > Len(s) THEN <<s>>
                   ELSE <<SubSeq(s, 1, i - 1)>> \o Split(SubSeq(s, i + 1, Len(s)), ch)

RECURSIVE Join(_, _)
Join(parts, sep) == IF Len(parts) = 0 THEN <<>>
                    ELSE IF Len(parts) = 1 THEN parts[1]
                    ELSE parts[1] \o sep \o Join(Tail(parts), sep)

RECURSIVE Flatten(_)
Flatten(parts) == IF Len(parts) = 0 THEN <<>> ELSE parts[1] \o Flatten(Tail(parts))

\* Variant: only undefined counts as missing (`x === undefined`).
TruthyUnlessUndefined(v) == v.t # "undefined"

\* Truthiness as the handler's `!x` tests read it.
Truthy(v) == CASE v.t = "undefined" -> FALSE
               [] v.t = "string" -> Len(v.s) > 0
               [] v.t = "number" -> v.n # 0

\* Template-literal / URLSearchParams conversion of a value to a string.
JsString(v) == CASE v.t = "undefined" -> <<"u", "n", "d", "e", "f", "i", "n", "e", "d">>
                 [] v.t = "string" -> v.s
                 [] v.t = "number" -> DecStr(v.n)

\* ------------------------------------------------------------------------
\* new URL(text) for an https URL: the WHATWG URL parser's authority, host,
\* port and path states.  The result carries ok = FALSE where the parser
\* fails and the constructor throws TypeError('Invalid URL').
HttpsPrefix == <<"h", "t", "t", "p", "s", ":", "/", "/">>

AuthorityEnd == {"/", "?", "#", "\\"}

ForbiddenHostChars == {" ", "#", "/", ":", "<", ">", "?", "@", "[", "\\", "]", "^", "|", "%"}

DefaultHttpsPort == 443

MaxPort == 65535

UrlFailure == [ok |-> FALSE, hostname |-> <<>>, port |-> <<>>, pathname |-> <<>>, search |-> <<>>]

\* Slashes after the scheme are skipped (special authority ignore slashes state).
RECURSIVE SkipSlashes(_)
SkipSlashes(s) == IF Len(s) > 0 /\ s[1] \in {"/", "\\"} THEN SkipSlashes(Tail(s)) ELSE s

\* One dotted part of an IPv4 host: decimal, or octal with a leading zero.
Ipv4PartRadix(p) == IF Len(p) > 1 /\ p[1] = "0" THEN 8 ELSE 10

Ipv4PartOk(p) == /\ Len(p) > 0
                 /\ AllDigits(p)
                 /\ \A i \in 1..Len(p) : DigitVal(p[i]) < Ipv4PartRadix(p)

Ipv4PartVal(p) == RadixVal(p, Ipv4PartRadix(p))

\* The host's dotted parts, a single trailing empty part dropped.
HostParts(h) == LET ps == Split(h, ".")
                IN IF Len(ps) > 1 /\ Len(ps[Len(ps)]) = 0
                   THEN SubSeq(ps, 1, Len(ps) - 1) ELSE ps

\* "ends in a number" check of the host parser.
EndsInNumber(h) == LET ps == HostParts(h)
                       last == ps[Len(ps)]
                   IN Len(last) > 0 /\ AllDigits(last)

Pow256(k) == CASE k = 0 -> 1 [] k = 1 -> 256 [] k = 2 -> 65536 [] k = 3 -> 16777216

\* The last part of an IPv4 host fills the remaining k octets, big-endian.
RECURSIVE Octets(_, _)
Octets(v, k) == IF k = 0 THEN <<>>
                ELSE Octets(v \div 256, k - 1) \o <<v % 256>>

\* IPv4 parser: [ok, text] with text the dotted-quad serialisation.
ParseIpv4(h) ==
    LET ps == HostParts(h)
        n == Len(ps)
    IN IF n > 4 \/ \E i \in 1..n : ~Ipv4PartOk(ps[i]) \/ Len(ps[i]) > 9
       THEN [ok |-> FALSE, text |-> <<>>]
       ELSE LET last == Ipv4PartVal(ps[n])
                lead == [i \in 1..(n - 1) |-> Ipv4PartVal(ps[i])]
            IN IF \/ \E i \in 1..(n - 1) : lead[i] > 255
                  \/ (n > 1 /\ last >= Pow256(5 - n))
               THEN [ok |-> FALSE, text |-> <<>>]
               ELSE LET os == lead \o Octets(last, 5 - n)
                    IN [ok |-> TRUE,
                        text |-> Join([i \in 1..4 |-> DecStr(os[i])], <<".">>)]

\* Host parser for a special scheme: [ok, text].
ParseHost(raw) ==
    LET h == ToLowerCase(raw)
    IN IF Len(h) = 0 \/ \E i \in 1..Len(h) : h[i] \in ForbiddenHostChars
       THEN [ok |-> FALSE, text |-> <<>>]
       ELSE IF EndsInNumber(h) THEN ParseIpv4(h)
       ELSE [ok |-> TRUE, text |-> h]

\* Port state: [ok, text]; the default port serialises as the empty string.
ParsePort(raw) ==
    IF ~AllDigits(raw) \/ Len(raw) > 9 THEN [ok |-> FALSE, text |-> <<>>]
    ELSE IF Len(raw) = 0 THEN [ok |-> TRUE, text |-> <<>>]
    ELSE IF DecVal(raw) > MaxPort THEN [ok |-> FALSE, text |-> <<>>]
    ELSE IF DecVal(raw) = DefaultHttpsPort THEN [ok |-> TRUE, text |-> <<>>]
    ELSE [ok |-> TRUE, text |-> DecStr(DecVal(raw))]

\* Percent-encoding of the path and query states for the characters the
\* model's inputs contain.
PercentEncode(s) == Flatten([i \in 1..Len(s) |->
                        IF s[i] = " " THEN <<"%", "2", "0">> ELSE <<s[i]>>])

\* Path state: dot segments are removed, the other segments are encoded.
RECURSIVE PathSegments(_, _, _)
PathSegments(segs, i, acc) ==
    IF i > Len(segs) THEN acc
    ELSE LET seg == segs[i]
             last == (i = Len(segs))
             popped == IF Len(acc) > 0 THEN SubSeq(acc, 1, Len(acc) - 1) ELSE acc
         IN IF seg = <<".", ".">>
            THEN PathSegments(segs, i + 1, IF last THEN Append(popped, <<>>) ELSE popped)
            ELSE IF seg = <<".">>
            THEN PathSegments(segs, i + 1, IF last THEN Append(acc, <<>>) ELSE acc)
            ELSE PathSegments(segs, i + 1, Append(acc, PercentEncode(seg)))

ParsePath(raw) ==
    IF Len(raw) = 0 THEN <<"/">>
    ELSE LET body == IF raw[1] \in {"/", "\\"} THEN Tail(raw) ELSE raw
         IN <<"/">> \o Join(PathSegments(Split(body, "/"), 1, <<>>), <<"/">>)

ParseURL(text) ==
    IF ~StartsWith(text, HttpsPrefix) THEN UrlFailure
    ELSE LET rest == SkipSlashes(SubSeq(text, Len(HttpsPrefix) + 1, Len(text)))
             aEnd == FirstOf(rest, AuthorityEnd)
             authority == SubSeq(rest, 1, aEnd - 1)
             tail == SubSeq(rest, aEnd, Len(rest))
             at == LastIndexOf(authority, "@")
             hostport == SubSeq(authority, at + 1, Len(authority))
             colon == FirstOf(hostport, {":"})
             host == ParseHost(SubSeq(hostport, 1, colon - 1))
             port == ParsePort(SubSeq(hostport, colon + 1, Len(hostport)))
             qAt == FirstOf(tail, {"?", "#"})
             hAt == FirstOf(tail, {"#"})
             query == SubSeq(tail, qAt, hAt - 1)
         IN IF ~host.ok \/ ~port.ok THEN UrlFailure
            ELSE [ok |-> TRUE,
                  hostname |-> host.text,
                  port |-> port.text,
                  pathname |-> ParsePath(SubSeq(tail, 1, qAt - 1)),
                  search |-> IF Len(query) <= 1 THEN <<>> ELSE PercentEncode(query)]

\* ------------------------------------------------------------------------
\* new URLSearchParams({...}).toString(): application/x-www-form-urlencoded.
FormSafeChars == {"*", "-", ".", "_"}

IsAlnum(ch) == \/ IsDigit(ch)
               \/ \E i \in 1..26 : UpperChars[i] = ch \/ LowerChars[i] = ch

\* Percent codes of the characters the model's inputs contain.
PercentCodes == << <<":", <<"%", "3", "A">> >>, <<"/", <<"%", "2", "F">> >>,
                   <<"?", <<"%", "3", "F">> >>, <<"@", <<"%", "4", "0">> >>,
                   <<"&", <<"%", "2", "6">> >>, <<"=", <<"%", "3", "D">> >>,
                   <<"+", <<"%", "2", "B">> >>, <<"%", <<"%", "2", "5">> >>,
                   <<"<", <<"%", "3", "C">> >>, <<">", <<"%", "3", "E">> >> >>

FormEncodeChar(ch) ==
    IF IsAlnum(ch) \/ ch \in FormSafeChars THEN <<ch>>
    ELSE IF ch = " " THEN <<"+">>
    ELSE PercentCodes[CHOOSE i \in 1..Len(PercentCodes) : PercentCodes[i][1] = ch][2]

FormEncode(s) == Flatten([i \in 1..Len(s) |-> FormEncodeChar(s[i])])

FormSerialize(pairs) ==
    Join([i \in 1..Len(pairs) |-> FormEncode(pairs[i][1]) \o <<"=">> \o FormEncode(pairs[i][2])],
         <<"&">>)

\* The upstream's reading of a form body: percent-decoding and field lookup.
RECURSIVE FormDecode(_)
FormDecode(s) ==
    IF Len(s) = 0 THEN <<>>
    ELSE IF s[1] = "+" THEN <<" ">> \o FormDecode(Tail(s))
    ELSE IF s[1] = "%" /\ Len(s) >= 3
              /\ \E i \in 1..Len(PercentCodes) : PercentCodes[i][2] = SubSeq(s, 1, 3)
         THEN <<PercentCodes[CHOOSE i \in 1..Len(PercentCodes) :
                                 PercentCodes[i][2] = SubSeq(s, 1, 3)][1]>>
              \o FormDecode(SubSeq(s, 4, Len(s)))
    ELSE <<s[1]>> \o FormDecode(Tail(s))

FormFields(text) ==
    LET raw == Split(text, "&")
    IN [i \in 1..Len(raw) |->
           LET eq == FirstOf(raw[i], {"="})
           IN <<FormDecode(SubSeq(raw[i], 1, eq - 1)),
                FormDecode(SubSeq(raw[i], eq + 1, Len(raw[i])))>>]

\* Values of the form fields named `name`, in order of appearance.
FormField(text, name) ==
    LET fs == FormFields(text)
    IN SelectSeq(fs, LAMBDA f : f[1] = name)

\* ------------------------------------------------------------------------
\* JSON text of a flat object with string members, and JSON.parse of the
\* texts the modelled upstream sends (object texts, their truncations, HTML
\* and the empty body).  A parsed object is the sequence of its members.
Quote == "\""

RECURSIVE MembersText(_)
MembersText(obj) ==
    IF Len(obj) = 0 THEN <<>>
    ELSE <<Quote>> \o obj[1][1] \o <<Quote, ":", Quote>> \o obj[1][2] \o <<Quote>>
         \o (IF Len(obj) > 1 THEN <<",">> \o MembersText(Tail(obj)) ELSE <<>>)

Stringify(obj) == <<"{">> \o MembersText(obj) \o <<"}">>

JsonFail(text, at) ==
    [ok |-> FALSE, value |-> <<>>,
     message |-> IF at > Len(text) THEN "Unexpected end of JSON input"
                 ELSE "Unexpected token in JSON"]

\* A string literal starting at i: [ok, val, next].
JsonString(text, i) ==
    IF i > Len(text) \/ text[i] # Quote THEN [ok |-> FALSE, val |-> <<>>, next |-> i]
    ELSE LET j == i + FirstOf(SubSeq(text, i + 1, Len(text)), {Quote})
         IN IF j > Len(text) THEN [ok |-> FALSE, val |-> <<>>, next |-> Len(text) + 1]
            ELSE [ok |-> TRUE, val |-> SubSeq(text, i + 1, j - 1), next |-> j + 1]

\* A later member with the same key replaces the value of the earlier one.
SetMember(obj, k, v) ==
    IF \E i \in 1..Len(obj) : obj[i][1] = k
    THEN [i \in 1..Len(obj) |-> IF obj[i][1] = k THEN <<k, v>> ELSE obj[i]]
    ELSE Append(obj, <<k, v>>)

RECURSIVE JsonMembers(_, _, _)
JsonMembers(text, i, acc) ==
    LET k == JsonString(text, i)
    IN IF ~k.ok THEN JsonFail(text, k.next)
       ELSE IF k.next > Len(text) \/ text[k.next] # ":" THEN JsonFail(text, k.next)
       ELSE LET v == JsonString(text, k.next + 1)
            IN IF ~v.ok THEN JsonFail(text, v.next)
               ELSE IF v.next > Len(text) THEN JsonFail(text, v.next)
               ELSE IF text[v.next] = "," 
                    THEN JsonMembers(text, v.next + 1, SetMember(acc, k.val, v.val))
               ELSE IF text[v.next] = "}"
                    THEN IF v.next = Len(text)
                         THEN [ok |-> TRUE, value |-> SetMember(acc, k.val, v.val),
                               message |-> ""]
                         ELSE JsonFail(text, v.next + 1)
               ELSE JsonFail(text, v.next)

JSONParse(text) ==
    IF Len(text) = 0 \/ text[1] # "{" THEN JsonFail(text, 1)
    ELSE IF Len(text) >= 2 /\ text[2] = "}"
         THEN IF Len(text) = 2 THEN [ok |-> TRUE, value |-> <<>>, message |-> ""]
              ELSE JsonFail(text, 3)
    ELSE JsonMembers(text, 2, <<>>)

\* ------------------------------------------------------------------------
\* The exchange handler, app.post('/api/exchangetoken').
LocalPrefix == <<"l", "o", "c", "a", "l", ".">>

BrokerUrl == <<"h", "t", "t", "p", "s", ":", "/", "/", "o", "a", "u", "t", "h", ".", "b", "i", "t", "r", "i", "x", ".", "i", "n", "f", "o", "/", "o", "a", "u", "t", "h", "/", "t", "o", "k", "e", "n", "/">>

TokenPath == <<"/", "o", "a", "u", "t", "h", "/", "t", "o", "k", "e", "n", "/">>

JsonType == <<"a", "p", "p", "l", "i", "c", "a", "t", "i", "o", "n", "/", "j", "s", "o", "n">>

HttpsPort == 443

PreviewLen == 200

\* A response sent on `res`: the status and the JSON body, which is either
\* a record built by the relay or the object parsed from the upstream body.
RelayResponse(status, body) ==
    [status |-> status, via |-> "relay", err |-> body, obj |-> <<>>]

PassThrough(status, value) ==
    [status |-> status, via |-> "upstream", err |-> [error |-> "none"], obj |-> value]

MissingOauthCode ==
    RelayResponse(400, [error |-> "missing_oauth_code",
                        message |-> "oauth_code parameter is required"])

MissingDomain ==
    RelayResponse(400, [error |-> "missing_domain",
                        message |-> "domain parameter is required"])

\* Variant: has_client_secret reports the client id.
MissingEnvCopyPaste(e) ==
    RelayResponse(500, [error |-> "missing_env",
                        message |-> "Server configuration error",
                        details |-> [has_client_id |-> Truthy(e.clientId),
                                     has_client_secret |-> Truthy(e.clientId),
                                     has_redirect_uri |-> Truthy(e.redirectUri)]])

MissingEnv(e) ==
    RelayResponse(500, [error |-> "missing_env",
                        message |-> "Server configuration error",
                        details |-> [has_client_id |-> Truthy(e.clientId),
                                     has_client_secret |-> Truthy(e.clientSecret),
                                     has_redirect_uri |-> Truthy(e.redirectUri)]])

\* The catch block: any exception becomes a 500 carrying error.message.
Exception(message) ==
    RelayResponse(500, [error |-> "exception", message |-> message])

\* Variant: the client id is compared with the prefix instead of tested for it.
UseOAuthServerExact(clientId) == clientId = LocalPrefix

UseOAuthServer(clientId) == StartsWith(clientId, LocalPrefix)

TokenUrl(clientId, domain) ==
    IF UseOAuthServer(clientId) THEN BrokerUrl
    ELSE HttpsPrefix \o JsString(domain) \o TokenPath

PostData(clientId, clientSecret, code, redirectUri) ==
    FormSerialize(<< <<<<"g", "r", "a", "n", "t", "_", "t", "y", "p", "e">>, <<"a", "u", "t", "h", "o", "r", "i", "z", "a", "t", "i", "o", "n", "_", "c", "o", "d", "e">>>>,
                     <<<<"c", "l", "i", "e", "n", "t", "_", "i", "d">>, clientId>>,
                     <<<<"c", "l", "i", "e", "n", "t", "_", "s", "e", "c", "r", "e", "t">>, clientSecret>>,
                     <<<<"c", "o", "d", "e">>, JsString(code)>>,
                     <<<<"r", "e", "d", "i", "r", "e", "c", "t", "_", "u", "r", "i">>, redirectUri>> >>)

RequestOptions(parsedUrl, postData) ==
    [hostname |-> parsedUrl.hostname,
     port |-> HttpsPort,
     path |-> parsedUrl.pathname,
     method |-> "POST",
     contentType |-> "application/x-www-form-urlencoded",
     contentLength |-> Len(postData),
     accept |-> "application/json",
     body |-> postData]

\* Variant: the domain is validated before the oauth_code.
HandleDomainFirst(e, b) ==
    IF ~Truthy(b.domain) THEN [responses |-> <<MissingDomain>>, requests |-> <<>>]
    ELSE IF ~Truthy(b.oauth_code) THEN [responses |-> <<MissingOauthCode>>, requests |-> <<>>]
    ELSE IF ~Truthy(e.clientId) \/ ~Truthy(e.clientSecret) \/ ~Truthy(e.redirectUri)
         THEN [responses |-> <<MissingEnv(e)>>, requests |-> <<>>]
    ELSE LET tokenUrl == TokenUrl(e.clientId.s, b.domain)
             postData == PostData(e.clientId.s, e.clientSecret.s, b.oauth_code,
                                  e.redirectUri.s)
             parsedUrl == ParseURL(tokenUrl)
         IN IF b.oauth_code.t # "string"
            THEN [responses |-> <<Exception("oauth_code.substring is not a function")>>,
                  requests |-> <<>>]
            ELSE IF ~parsedUrl.ok
            THEN [responses |-> <<Exception("Invalid URL")>>, requests |-> <<>>]
            ELSE [responses |-> <<>>,
                  requests |-> <<RequestOptions(parsedUrl, postData)>>]

\* The handler from its entry to the await of line 125: the responses it
\* sends and the outbound requests it writes.
Handle(e, b) ==
    IF ~Truthy(b.oauth_code) THEN [responses |-> <<MissingOauthCode>>, requests |-> <<>>]
    ELSE IF ~Truthy(b.domain) THEN [responses |-> <<MissingDomain>>, requests |-> <<>>]
    ELSE IF ~Truthy(e.clientId) \/ ~Truthy(e.clientSecret) \/ ~Truthy(e.redirectUri)
         THEN [responses |-> <<MissingEnv(e)>>, requests |-> <<>>]
    ELSE LET tokenUrl == TokenUrl(e.clientId.s, b.domain)
             postData == PostData(e.clientId.s, e.clientSecret.s, b.oauth_code,
                                  e.redirectUri.s)
             parsedUrl == ParseURL(tokenUrl)
         IN IF b.oauth_code.t # "string"
            THEN [responses |-> <<Exception("oauth_code.substring is not a function")>>,
                  requests |-> <<>>]
            ELSE IF ~parsedUrl.ok
            THEN [responses |-> <<Exception("Invalid URL")>>, requests |-> <<>>]
            ELSE [responses |-> <<>>,
                  requests |-> <<RequestOptions(parsedUrl, postData)>>]

\* Variant: the content type is kept in the case the upstream wrote it in.
ResponseDataNoLower(statusCode, header, body) ==
    [statusCode |-> statusCode,
     body |-> body,
     contentType |-> IF header.t = "string" THEN header.s ELSE <<>>]

\* response.on('end'): the value the promise resolves with.
ResponseData(statusCode, header, body) ==
    [statusCode |-> statusCode,
     body |-> body,
     contentType |-> ToLowerCase(IF header.t = "string" THEN header.s ELSE <<>>)]

IsJson(contentType) == Includes(contentType, JsonType)

\* Variant: JSON.parse runs outside the try block, its exception is not caught.
ClassifyUncaught(responseData) ==
    IF IsJson(responseData.contentType)
    THEN LET jsonResponse == JSONParse(responseData.body)
         IN IF jsonResponse.ok
            THEN <<PassThrough(responseData.statusCode, jsonResponse.value)>>
            ELSE <<>>
    ELSE <<RelayResponse(502, [error |-> "bitrix_returned_html",
                               message |-> "Bitrix returned HTML instead of JSON",
                               status |-> responseData.statusCode,
                               contentType |-> responseData.contentType,
                               bodyPreview |-> Substring0(responseData.body, PreviewLen)])>>

\* The handler after the await resolved: the responses it sends.
Classify(responseData) ==
    IF IsJson(responseData.contentType)
    THEN LET jsonResponse == JSONParse(responseData.body)
         IN IF jsonResponse.ok
            THEN <<PassThrough(responseData.statusCode, jsonResponse.value)>>
            ELSE <<Exception(jsonResponse.message)>>
    ELSE <<RelayResponse(502, [error |-> "bitrix_returned_html",
                               message |-> "Bitrix returned HTML instead of JSON",
                               status |-> responseData.statusCode,
                               contentType |-> responseData.contentType,
                               bodyPreview |-> Substring0(responseData.body, PreviewLen)])>>

\* Variant: the catch block answers with a fixed message.
RejectedGeneric(message) == <<Exception("Internal server error")>>

\* The handler after the await rejected: the catch block.
Rejected(message) == <<Exception(message)>>

\* ------------------------------------------------------------------------
\* State.
VARIABLES
    env,        \* process.env: the three BITRIX_* credentials
    pc,         \* per call: "idle", "await" (suspended at the await) or "done"
    reqBody,    \* per call: req.body
    wire,       \* per call: the outbound requests written with https.request
    upstream,   \* per call: the outbound exchange (socket phase, status line,
                \*           content-type header, body sent, chunks not yet read)
    data,       \* per call: the `data` accumulator of the response callback
    promise,    \* per call: the promise awaited at line 125
    responses   \* per call: the responses sent on `res`

vars == <<env, pc, reqBody, wire, upstream, data, promise, responses>>

\* ------------------------------------------------------------------------
\* Bounds of the model.
NCalls == 2

MaxDomainLen == 3

MaxCut == 1

HtmlLen == 205

Calls == 1..NCalls

NoBody == [oauth_code |-> JUndef, domain |-> JUndef]

NoUpstream == [phase |-> "none", status |-> 0, header |-> JUndef,
               sent |-> <<>>, chunks |-> <<>>]

NoPromise == [state |-> "none", value |-> ResponseData(0, JUndef, <<>>), message |-> ""]

InitWith(envs) ==
    /\ env \in envs
    /\ pc = [c \in Calls |-> "idle"]
    /\ reqBody = [c \in Calls |-> NoBody]
    /\ wire = [c \in Calls |-> <<>>]
    /\ upstream = [c \in Calls |-> NoUpstream]
    /\ data = [c \in Calls |-> <<>>]
    /\ promise = [c \in Calls |-> NoPromise]
    /\ responses = [c \in Calls |-> <<>>]

\* ------------------------------------------------------------------------
\* Actions.

\* A POST /api/exchangetoken arrives with body b; the handler runs to its
\* first response or to the await.
Exchange(c, b) ==
    /\ pc[c] = "idle"
    /\ LET h == Handle(env, b)
       IN /\ reqBody' = [reqBody EXCEPT ![c] = b]
          /\ responses' = [responses EXCEPT ![c] = @ \o h.responses]
          /\ wire' = [wire EXCEPT ![c] = @ \o h.requests]
          /\ IF Len(h.requests) > 0
             THEN /\ pc' = [pc EXCEPT ![c] = "await"]
                  /\ promise' = [promise EXCEPT ![c].state = "pending"]
                  /\ upstream' = [upstream EXCEPT ![c].phase = "sent"]
             ELSE /\ pc' = [pc EXCEPT ![c] = "done"]
                  /\ UNCHANGED <<promise, upstream>>
    /\ UNCHANGED <<env, data>>

\* The upstream's status line and headers arrive: the https.request callback
\* runs, `data` starts empty.  r.chunks is how the transport cuts r.body.
UpstreamReply(c, r) ==
    /\ upstream[c].phase = "sent"
    /\ upstream' = [upstream EXCEPT ![c] =
                       [phase |-> "receiving", status |-> r.status,
                        header |-> r.header, sent |-> r.body, chunks |-> r.chunks]]
    /\ data' = [data EXCEPT ![c] = <<>>]
    /\ UNCHANGED <<env, pc, reqBody, wire, promise, responses>>

\* Variant: `data` is declared once for the module, not once per response.
OnDataShared(c) ==
    /\ upstream[c].phase = "receiving"
    /\ Len(upstream[c].chunks) > 0
    /\ data' = [d \in Calls |-> data[d] \o Head(upstream[c].chunks)]
    /\ upstream' = [upstream EXCEPT ![c].chunks = Tail(@)]
    /\ UNCHANGED <<env, pc, reqBody, wire, promise, responses>>

\* response.on('data')
OnData(c) ==
    /\ upstream[c].phase = "receiving"
    /\ Len(upstream[c].chunks) > 0
    /\ data' = [data EXCEPT ![c] = @ \o Head(upstream[c].chunks)]
    /\ upstream' = [upstream EXCEPT ![c].chunks = Tail(@)]
    /\ UNCHANGED <<env, pc, reqBody, wire, promise, responses>>

\* Settling a promise has an effect only while it is pending.
Settle(p, state, value, message) ==
    IF p.state = "pending"
    THEN [state |-> state, value |-> value, message |-> message]
    ELSE p

\* response.on('end')
OnEnd(c) ==
    /\ upstream[c].phase = "receiving"
    /\ Len(upstream[c].chunks) = 0
    /\ upstream' = [upstream EXCEPT ![c].phase = "ended"]
    /\ promise' = [promise EXCEPT ![c] =
                      Settle(@, "resolved",
                             ResponseData(upstream[c].status, upstream[c].header, data[c]),
                             "")]
    /\ UNCHANGED <<env, pc, reqBody, wire, data, responses>>

\* req.on('error'): DNS, TLS, reset, socket hang up.
OnError(c, message) ==
    /\ upstream[c].phase \in {"sent", "receiving"}
    /\ upstream' = [upstream EXCEPT ![c] = [NoUpstream EXCEPT !.phase = "failed"]]
    /\ promise' = [promise EXCEPT ![c] = Settle(@, "rejected", @.value, message)]
    /\ UNCHANGED <<env, pc, reqBody, wire, data, responses>>

\* The socket closes in the middle of the body: the response is aborted,
\* no 'end' and (there being no listener on the response) no 'error' follows.
SocketClose(c) ==
    /\ upstream[c].phase = "receiving"
    /\ upstream' = [upstream EXCEPT ![c] = [NoUpstream EXCEPT !.phase = "aborted"]]
    /\ UNCHANGED <<env, pc, reqBody, wire, data, promise, responses>>

\* The handler resumes after the await: classification, or the catch block.
Continue(c) ==
    /\ pc[c] = "await"
    /\ promise[c].state \in {"resolved", "rejected"}
    /\ responses' = [responses EXCEPT ![c] =
                        @ \o (IF promise[c].state = "resolved"
                              THEN Classify(promise[c].value)
                              ELSE Rejected(promise[c].message))]
    /\ pc' = [pc EXCEPT ![c] = "done"]
    /\ UNCHANGED <<env, reqBody, wire, upstream, data, promise>>

\* ------------------------------------------------------------------------
\* Inputs.
Env(id, secret, uri) == [clientId |-> id, clientSecret |-> secret, redirectUri |-> uri]

LocalId == JStr(<<"l", "o", "c", "a", "l", ".", "1">>)

CloudId == JStr(<<"a", "p", "p", ".", "1">>)

NearLocalId == JStr(<<"l", "o", "c", "a", "l">>)

Secret == JStr(<<"s", "&", "k">>)

RedirectUri == JStr(<<"r", ":", "/", "c">>)

TransportErrors == {"getaddrinfo ENOTFOUND", "socket hang up"}

\* What the upstream answers to a request: the token object echoes the code
\* it was sent, so that a reply identifies the request it answers.
TokenObject(req) ==
    << <<<<"a", "c", "c", "e", "s", "s", "_", "t", "o", "k", "e", "n">>, Flatten([i \in 1..Len(FormField(req.body, <<"c", "o", "d", "e">>)) |->
                                      FormField(req.body, <<"c", "o", "d", "e">>)[i][2]])>>,
       <<<<"r", "e", "f", "r", "e", "s", "h", "_", "t", "o", "k", "e", "n">>, <<"r", "t">> >> >>

ErrorObject == << <<<<"e", "r", "r", "o", "r">>, <<"i", "n", "v", "a", "l", "i", "d", "_", "g", "r", "a", "n", "t">>>> >>

HtmlPage == [i \in 1..HtmlLen |-> IF i = 1 THEN "<" ELSE DigitChars[(i % 10) + 1]]

HtmlShort == <<"<", "p", ">">>

JsonHeaders == {JStr(<<"a", "p", "p", "l", "i", "c", "a", "t", "i", "o", "n", "/", "j", "s", "o", "n">>), JStr(<<"A", "p", "p", "l", "i", "c", "a", "t", "i", "o", "n", "/", "J", "S", "O", "N", ";", " ", "c", "h", "a", "r", "s", "e", "t", "=", "U", "T", "F", "-", "8">>)}

OtherHeaders == {JUndef, JStr(<<"t", "e", "x", "t", "/", "h", "t", "m", "l">>), JStr(<<"T", "e", "x", "t", "/", "H", "T", "M", "L", ";", " ", "c", "h", "a", "r", "s", "e", "t", "=", "U", "T", "F", "-", "8">>)}

\* The ways the transport cuts a body into 'data' chunks.
Chunkings(body) ==
    IF Len(body) = 0 THEN {<<>>}
    ELSE {<<body>>} \cup
         {<<SubSeq(body, 1, p), SubSeq(body, p + 1, Len(body))>> :
              p \in 1..Min(MaxCut, Len(body) - 1)}

Reply(status, header, body, chunks) ==
    [status |-> status, header |-> header, body |-> body, chunks |-> chunks]

Truncated(text) == SubSeq(text, 1, Len(text) - 1)

RichBodies(req) ==
    {Stringify(TokenObject(req)), Stringify(ErrorObject), Stringify(<<>>),
     Truncated(Stringify(TokenObject(req))), HtmlPage, HtmlShort, <<>>}

RichReplies(req) ==
    UNION {{Reply(st, h, b, ch) : st \in {200, 400}, h \in JsonHeaders \cup OtherHeaders,
                                  ch \in Chunkings(b)} : b \in RichBodies(req)}

\* Two replies, the first in one chunk and the second cut in two.
LeanReplies(req) ==
    {Reply(200, JStr(<<"a", "p", "p", "l", "i", "c", "a", "t", "i", "o", "n", "/", "j", "s", "o", "n">>), Stringify(TokenObject(req)), <<Stringify(TokenObject(req))>>),
     Reply(400, JStr(<<"t", "e", "x", "t", "/", "h", "t", "m", "l">>), HtmlShort, <<<<"<">>, <<"p", ">">> >>)}

\* The replies the upstream can give to the request call c has on the wire.
RichRepliesTo(c) ==
    IF upstream[c].phase = "sent" THEN RichReplies(wire[c][Len(wire[c])]) ELSE {}

LeanRepliesTo(c) ==
    IF upstream[c].phase = "sent" THEN LeanReplies(wire[c][Len(wire[c])]) ELSE {}

\* ------------------------------------------------------------------------
\* Spec: one call, every kind of body field, environment and upstream reply.
Envs ==
    {Env(i, s, u) : i \in {JUndef, JStr(<<>>), LocalId, CloudId, NearLocalId},
                    s \in {JUndef, JStr(<<>>), Secret},
                    u \in {JUndef, RedirectUri}}

OauthCodes == {JUndef, JStr(<<>>), JNum(0), JNum(7), JStr(<<"x">>), JStr(<<"x", "&", "y">>)}

Domains == {JUndef, JStr(<<>>), JNum(7), JStr(<<"a">>), JStr(<<"a", ":", "8">>),
            JStr(<<"a", " ", "b">>)}

Bodies == {[oauth_code |-> o, domain |-> d] : o \in OauthCodes, d \in Domains}

Init == InitWith(Envs)

Next ==
    \/ \E b \in Bodies : Exchange(1, b)
    \/ \E r \in RichRepliesTo(1) : UpstreamReply(1, r)
    \/ OnData(1)
    \/ OnEnd(1)
    \/ \E m \in TransportErrors : OnError(1, m)
    \/ SocketClose(1)
    \/ Continue(1)

Spec == Init /\ [][Next]_vars

\* ------------------------------------------------------------------------
\* UrlSpec: one call, every domain string of at most MaxDomainLen characters
\* over the characters that steer the URL parser.
DomainChars == {"a", "8", ".", ":", "/", "?", "@", " "}

Strings(n) == UNION {[1..k -> DomainChars] : k \in 0..n}

UrlEnvs == {Env(LocalId, Secret, RedirectUri), Env(CloudId, Secret, RedirectUri)}

UrlBodies == {[oauth_code |-> JStr(<<"x">>), domain |-> JStr(d)] : d \in Strings(MaxDomainLen)}

InitUrl == InitWith(UrlEnvs)

NextUrl ==
    \/ \E b \in UrlBodies : Exchange(1, b)
    \/ \E r \in LeanRepliesTo(1) : UpstreamReply(1, r)
    \/ OnData(1)
    \/ OnEnd(1)
    \/ \E m \in TransportErrors : OnError(1, m)
    \/ SocketClose(1)
    \/ Continue(1)

UrlSpec == InitUrl /\ [][NextUrl]_vars

\* ------------------------------------------------------------------------
\* ConcSpec: NCalls calls in flight at once, with different domains and codes.
ConcBodies ==
    {[oauth_code |-> JStr(<<"x">>), domain |-> JStr(<<"a">>)],
     [oauth_code |-> JStr(<<"y">>), domain |-> JStr(<<"b">>)],
     [oauth_code |-> JUndef, domain |-> JStr(<<"a">>)]}

ConcErrors == {"socket hang up"}

InitConc == InitWith(UrlEnvs)

NextConc ==
    \E c \in Calls :
        \/ \E b \in ConcBodies : Exchange(c, b)
        \/ \E r \in LeanRepliesTo(c) : UpstreamReply(c, r)
        \/ OnData(c)
        \/ OnEnd(c)
        \/ \E m \in ConcErrors : OnError(c, m)
        \/ SocketClose(c)
        \/ Continue(c)

ConcSpec == InitConc /\ [][NextConc]_vars

\* The step that takes call c past its await: every Continue(c) step is one,
\* and it is enabled exactly when Continue(c) is.
Resumes(c) ==
    /\ pc[c] = "await"
    /\ promise[c].state \in {"resolved", "rejected"}
    /\ pc' = [pc EXCEPT ![c] = "done"]

\* FairSpec: Spec, with the event loop running the continuation of a settled
\* promise.
FairSpec == Spec /\ WF_pc(Resumes(1))

\* ------------------------------------------------------------------------
\* Vocabulary of the properties.
Received(c) == pc[c] # "idle"

Answered(c) == Len(responses[c]) > 0

Resp(c) == responses[c][1]

\* A field that is absent or empty.
Missing(v) == v = JUndef \/ v = JStr(<<>>)

\* A field or credential that is there: a non-empty string or a non-zero number.
Supplied(v) == \/ (v.t = "string" /\ Len(v.s) > 0)
               \/ (v.t = "number" /\ v.n # 0)

Contacted(c) == Len(wire[c]) > 0 \/ upstream[c].phase # "none"

CredentialsComplete ==
    Supplied(env.clientId) /\ Supplied(env.clientSecret) /\ Supplied(env.redirectUri)

IsLocalClient == Supplied(env.clientId) /\ StartsWith(env.clientId.s, LocalPrefix)

BrokerHost == <<"o", "a", "u", "t", "h", ".", "b", "i", "t", "r", "i", "x", ".", "i", "n", "f", "o">>

\* The reply of call c's own outbound call has been read to its end and the
\* call has been answered.
RepliedAndDone(c) == pc[c] = "done" /\ upstream[c].phase = "ended"

\* The content type the upstream declared, the empty string when none.
Declared(c) == IF upstream[c].header.t = "string" THEN upstream[c].header.s ELSE <<>>

\* ------------------------------------------------------------------------
\* C1: calls in flight together never cross-contaminate: a call's outbound
\* request is addressed with its own domain (or the broker), carries exactly
\* its own oauth_code, and the caller is relayed the reply to its own request.
C1_NoCrossContamination ==
    \A c \in Calls :
        /\ \A i \in 1..Len(wire[c]) :
              /\ wire[c][i].hostname =
                     (IF IsLocalClient THEN BrokerHost ELSE reqBody[c].domain.s)
              /\ FormField(wire[c][i].body, <<"c", "o", "d", "e">>)
                     = << <<<<"c", "o", "d", "e">>, reqBody[c].oauth_code.s>> >>
        /\ RepliedAndDone(c) =>
              /\ Len(responses[c]) = 1
              /\ \/ /\ Resp(c).via = "upstream"
                    /\ Resp(c).status = upstream[c].status
                    /\ upstream[c].sent = Stringify(Resp(c).obj)
                    /\ Resp(c).obj[1] = <<<<"a", "c", "c", "e", "s", "s", "_", "t", "o", "k", "e", "n">>, reqBody[c].oauth_code.s>>
                 \/ /\ Resp(c).via = "relay"
                    /\ Resp(c).err.error = "bitrix_returned_html"
                    /\ Resp(c).err.status = upstream[c].status
                    /\ Resp(c).err.bodyPreview = upstream[c].sent

\* Call 1 has relayed the token of its own code while call 2, with another
\* domain and code, is still reading its reply.
C1_Witness ==
    /\ RepliedAndDone(1) /\ Resp(1).via = "upstream"
    /\ pc[2] = "await" /\ upstream[2].phase = "receiving" /\ Len(data[2]) > 0
    /\ reqBody[1].domain # reqBody[2].domain
    /\ reqBody[1].oauth_code # reqBody[2].oauth_code
    /\ ~IsLocalClient

\* ------------------------------------------------------------------------
\* C2: a request whose oauth_code is absent or empty is answered 400
\* missing_oauth_code and the upstream is never contacted, whatever the
\* domain and the credentials.
C2_MissingOauthCode ==
    \A c \in Calls :
        (Received(c) /\ Missing(reqBody[c].oauth_code)) =>
            /\ Len(responses[c]) = 1
            /\ Resp(c).status = 400
            /\ Resp(c).err.error = "missing_oauth_code"
            /\ ~Contacted(c)

\* oauth_code is missing although the domain and the credentials would have
\* allowed the exchange.
C2_Witness ==
    /\ Received(1) /\ Missing(reqBody[1].oauth_code)
    /\ reqBody[1].domain = JStr(<<"a">>)
    /\ CredentialsComplete
    /\ Resp(1).status = 400

\* ------------------------------------------------------------------------
\* C3 as stated: a request whose domain is absent or empty is answered 400
\* missing_domain and the upstream is never contacted, whatever the
\* oauth_code and the credentials.
C3_AsStated ==
    \A c \in Calls :
        (Received(c) /\ Missing(reqBody[c].domain)) =>
            /\ Len(responses[c]) = 1
            /\ Resp(c).status = 400
            /\ Resp(c).err.error = "missing_domain"
            /\ ~Contacted(c)

\* C3 amended: a request that supplies an oauth_code and whose domain is
\* absent or empty is answered 400 missing_domain and the upstream is never
\* contacted, whatever the credentials; without an oauth_code the answer is
\* 400 missing_oauth_code.
C3_MissingDomain ==
    \A c \in Calls :
        (Received(c) /\ Missing(reqBody[c].domain)) =>
            /\ Len(responses[c]) = 1
            /\ Resp(c).status = 400
            /\ Resp(c).err.error = (IF Supplied(reqBody[c].oauth_code)
                                    THEN "missing_domain" ELSE "missing_oauth_code")
            /\ ~Contacted(c)

\* The domain is missing, the oauth_code is supplied, the credentials are
\* complete.
C3_Witness ==
    /\ Received(1) /\ Missing(reqBody[1].domain)
    /\ reqBody[1].oauth_code = JStr(<<"x">>)
    /\ CredentialsComplete
    /\ Resp(1).err.error = "missing_domain"

\* ------------------------------------------------------------------------
\* C4: with a client_id that does not start with 'local.', the outbound call
\* goes to the host, port and path that https://<domain>/oauth/token/
\* denotes, for any non-empty domain string.
PortOf(url) == IF Len(url.port) = 0 THEN DefaultHttpsPort ELSE DecVal(url.port)

C4_CloudTarget ==
    \A c \in Calls :
        (Len(wire[c]) > 0 /\ ~IsLocalClient /\ reqBody[c].domain.t = "string") =>
            LET url == ParseURL(HttpsPrefix \o reqBody[c].domain.s \o TokenPath)
            IN /\ url.ok
               /\ wire[c][1].hostname = url.hostname
               /\ wire[c][1].port = PortOf(url)
               /\ wire[c][1].path = url.pathname

\* ------------------------------------------------------------------------
\* C5: with a client_id that starts with 'local.', the outbound call goes to
\* https://oauth.bitrix.info/oauth/token/ whatever the domain.
C5_LocalTarget ==
    \A c \in Calls :
        (Len(wire[c]) > 0 /\ IsLocalClient) =>
            /\ wire[c][1].hostname = BrokerHost
            /\ wire[c][1].port = 443
            /\ wire[c][1].path = TokenPath
            /\ wire[c][1].method = "POST"

\* A local client's call is on the wire although its domain names another
\* host and port.
C5_Witness ==
    /\ IsLocalClient
    /\ Len(wire[1]) > 0
    /\ reqBody[1].domain = JStr(<<"a", ":", "8">>)

\* ------------------------------------------------------------------------
\* C6: when the upstream declares a JSON content type, in any letter case,
\* and its body is the JSON text of an object, the caller gets the
\* upstream's status code, 2xx or not, and exactly that object.
C6_JsonPassThrough ==
    \A c \in Calls :
        (RepliedAndDone(c) /\ upstream[c].header \in JsonHeaders) =>
            \A o \in {TokenObject(wire[c][1]), ErrorObject, <<>>} :
                upstream[c].sent = Stringify(o) =>
                    /\ Len(responses[c]) = 1
                    /\ Resp(c).via = "upstream"
                    /\ Resp(c).status = upstream[c].status
                    /\ Resp(c).obj = o

\* A 400 whose content type is spelled in capitals and whose body is a JSON
\* error object has been relayed.
C6_Witness ==
    /\ RepliedAndDone(1)
    /\ upstream[1].header = JStr(<<"A", "p", "p", "l", "i", "c", "a", "t", "i", "o", "n", "/", "J", "S", "O", "N", ";", " ", "c", "h", "a", "r", "s", "e", "t", "=", "U", "T", "F", "-", "8">>)
    /\ upstream[1].status = 400
    /\ upstream[1].sent = Stringify(ErrorObject)
    /\ Resp(1).via = "upstream"

\* ------------------------------------------------------------------------
\* C7 as stated: when the upstream does not declare a JSON content type the
\* caller gets 502 bitrix_returned_html whatever the upstream status, with
\* the upstream status, the declared content type and the first 200
\* characters of the body.
C7_AsStated ==
    \A c \in Calls :
        (RepliedAndDone(c) /\ upstream[c].header \in OtherHeaders) =>
            /\ Len(responses[c]) = 1
            /\ Resp(c).status = 502
            /\ Resp(c).err.error = "bitrix_returned_html"
            /\ Resp(c).err.status = upstream[c].status
            /\ Resp(c).err.contentType = Declared(c)
            /\ Len(Resp(c).err.bodyPreview) <= 200
            /\ Resp(c).err.bodyPreview = SubSeq(upstream[c].sent, 1, Len(Resp(c).err.bodyPreview))
            /\ Len(Resp(c).err.bodyPreview) = 200 \/ Resp(c).err.bodyPreview = upstream[c].sent

\* C7 amended: the same, the attached content type being the declared one in
\* lower case (the empty string when none was declared).
C7_NonJsonIs502 ==
    \A c \in Calls :
        (RepliedAndDone(c) /\ upstream[c].header \in OtherHeaders) =>
            /\ Len(responses[c]) = 1
            /\ Resp(c).status = 502
            /\ Resp(c).err.error = "bitrix_returned_html"
            /\ Resp(c).err.status = upstream[c].status
            /\ \A i \in 1..26 : \A k \in 1..Len(Resp(c).err.contentType) :
                   Resp(c).err.contentType[k] # UpperChars[i]
            /\ Len(Resp(c).err.contentType) = Len(Declared(c))
            /\ \A k \in 1..Len(Declared(c)) :
                   \/ Resp(c).err.contentType[k] = Declared(c)[k]
                   \/ \E i \in 1..26 : /\ Declared(c)[k] = UpperChars[i]
                                       /\ Resp(c).err.contentType[k] = LowerChars[i]
            /\ Len(Resp(c).err.bodyPreview) <= 200
            /\ Resp(c).err.bodyPreview = SubSeq(upstream[c].sent, 1, Len(Resp(c).err.bodyPreview))
            /\ Len(Resp(c).err.bodyPreview) = 200 \/ Resp(c).err.bodyPreview = upstream[c].sent

\* A 200 that declares Text/HTML and carries a page longer than 200
\* characters has been answered.
C7_Witness ==
    /\ RepliedAndDone(1)
    /\ upstream[1].header = JStr(<<"T", "e", "x", "t", "/", "H", "T", "M", "L", ";", " ", "c", "h", "a", "r", "s", "e", "t", "=", "U", "T", "F", "-", "8">>)
    /\ upstream[1].status = 200
    /\ Len(upstream[1].sent) > 200
    /\ Resp(1).status = 502

\* ------------------------------------------------------------------------
\* C8: when a credential is absent, a request that supplies oauth_code and
\* domain is answered 500 missing_env; the three has_* booleans equal the
\* presence of the three credentials and the body holds nothing else but
\* the error kind and a fixed message; the upstream is not contacted.
C8_MissingEnv ==
    \A c \in Calls :
        (/\ Received(c)
         /\ Supplied(reqBody[c].oauth_code) /\ Supplied(reqBody[c].domain)
         /\ ~CredentialsComplete) =>
            /\ Len(responses[c]) = 1
            /\ Resp(c).status = 500
            /\ Resp(c).err = [error |-> "missing_env",
                              message |-> "Server configuration error",
                              details |-> [has_client_id |-> Supplied(env.clientId),
                                           has_client_secret |-> Supplied(env.clientSecret),
                                           has_redirect_uri |-> Supplied(env.redirectUri)]]
            /\ ~Contacted(c)

\* The client id is set, the secret is not, and a well-formed request has
\* been answered.
C8_Witness ==
    /\ Received(1)
    /\ reqBody[1] = [oauth_code |-> JStr(<<"x">>), domain |-> JStr(<<"a">>)]
    /\ Supplied(env.clientId) /\ env.clientSecret = JUndef /\ Supplied(env.redirectUri)
    /\ Resp(1).err.error = "missing_env"

\* ------------------------------------------------------------------------
\* C9: a call writes at most one outbound request; when that request fails
\* at transport level no other is written, and the caller gets an error
\* result that carries the transport error's text.
C9_NoRetry ==
    \A c \in Calls :
        /\ Len(wire[c]) <= 1
        /\ upstream[c].phase = "failed" =>
              /\ Len(wire[c]) = 1
              /\ promise[c].state = "rejected"
              /\ promise[c].message \in TransportErrors
              /\ pc[c] = "done" =>
                    /\ Len(responses[c]) = 1
                    /\ Resp(c).status = 500
                    /\ Resp(c).err = [error |-> "exception",
                                      message |-> promise[c].message]

\* The connection was lost in the middle of the body and the caller has
\* been told so.
C9_Witness ==
    /\ upstream[1].phase = "failed"
    /\ Len(data[1]) > 0
    /\ pc[1] = "done"
    /\ Resp(1).err.message = "socket hang up"

\* ------------------------------------------------------------------------
\* C10: a call is never answered twice, and once its handling has nothing
\* left to wait for (no outbound request was written, or the reply was read
\* to its end, or the request failed) it is eventually answered once.
NothingToWaitFor(c) ==
    /\ Received(c)
    /\ (Len(wire[c]) = 0 \/ upstream[c].phase \in {"ended", "failed"})

C10_AnsweredOnce ==
    /\ [](\A c \in Calls : Len(responses[c]) <= 1)
    /\ \A c \in Calls : NothingToWaitFor(c) ~> (pc[c] = "done" /\ Len(responses[c]) = 1)

\* A body that claims to be JSON and does not parse has been answered with
\* one error response.
C10_Witness ==
    /\ RepliedAndDone(1)
    /\ upstream[1].header \in JsonHeaders
    /\ upstream[1].sent = <<"<", "p", ">">>
    /\ Len(responses[1]) = 1
    /\ Resp(1).err.error = "exception"

====
